---- MODULE Spec2Model ----
(***************************************************************************)
(* A model of proj2_nps.py: a scraper of nps.gov that caches every fetched *)
(* result in one JSON file (cache.json), keyed by URL or by zip code.      *)
(*                                                                         *)
(* Python values are modelled with their dynamic type: a dict is           *)
(* [t |-> "dict", v |-> function from string keys], a list is              *)
(* [t |-> "list", v |-> sequence], a NationalSite object is a record of    *)
(* its five attributes with t |-> "NationalSite", None is [t |-> "None"].  *)
(* Strings are TLA+ strings, so that +, strip() and lower() are computed   *)
(* character by character.                                                 *)
(*                                                                         *)
(* An exception is modelled by its class name; "" means no exception.      *)
(***************************************************************************)
EXTENDS Integers, Sequences, FiniteSets, TLC

VARIABLES
    file,       \* cache.json on disk: [exists, text]
    stack,      \* stack[p]: the call stack of process p, innermost frame last
    last,       \* last[p]: the call of process p that ended most recently
    main,       \* the state of the __main__ block (run by process 1)
    live,       \* the processes that run in this specification
    first       \* history: first[<<fn, key>>] is the value the first
                \* successful call of fn for that key returned

vars == <<file, stack, last, main, live, first>>

-----------------------------------------------------------------------------
(* Bounds of the model *)

MaxSites == 2       \* headings on a state page
MaxStates == 1      \* anchors in the navigation list of the index page
MaxItems == 2       \* items of a list of a saved store
Procs == {1, 2}

SeqUpTo(S, n) == UNION {[1..k -> S] : k \in 0..n}

-----------------------------------------------------------------------------
(* Python values *)

None == [t |-> "None"]
PyDict(f) == [t |-> "dict", v |-> f]
PyList(s) == [t |-> "list", v |-> s]
PyTuple(s) == [t |-> "tuple", v |-> s]
PyInt(n) == [t |-> "int", v |-> n]
PyBool(b) == [t |-> "bool", v |-> b]
EmptyDict == [k \in {} |-> None]

\* type(obj): a str is a TLA+ string, every other value carries its type
IsStr(obj) == SubSeq(ToString(obj), 1, 1) = "\""
type(obj) == IF IsStr(obj) THEN "str" ELSE obj.t

\* F(x), with x evaluated once
Once(x, F(_)) == CHOOSE r \in {F(v) : v \in {x}} : TRUE

\* str.strip(): remove leading and trailing whitespace
Whitespace == {" ", "\t", "\n"}
RECURSIVE lstrip(_)
lstrip(str) ==
    Once(str, LAMBDA s :
        IF Len(s) > 0 /\ SubSeq(s, 1, 1) \in Whitespace
        THEN lstrip(SubSeq(s, 2, Len(s)))
        ELSE s)
RECURSIVE rstrip(_)
rstrip(str) ==
    Once(str, LAMBDA s :
        IF Len(s) > 0 /\ SubSeq(s, Len(s), Len(s)) \in Whitespace
        THEN rstrip(SubSeq(s, 1, Len(s) - 1))
        ELSE s)
strip(s) == rstrip(lstrip(s))

\* str.lower(): map every upper-case letter to its lower-case letter
UpperCase == <<"A", "B", "C", "D", "E", "F", "G", "H", "I", "J", "K", "L", "M",
               "N", "O", "P", "Q", "R", "S", "T", "U", "V", "W", "X", "Y", "Z">>
LowerCase == <<"a", "b", "c", "d", "e", "f", "g", "h", "i", "j", "k", "l", "m",
               "n", "o", "p", "q", "r", "s", "t", "u", "v", "w", "x", "y", "z">>
lower_char(c) ==
    IF \E i \in DOMAIN UpperCase : UpperCase[i] = c
    THEN LowerCase[CHOOSE i \in DOMAIN UpperCase : UpperCase[i] = c]
    ELSE c
RECURSIVE lower(_)
lower(str) ==
    Once(str, LAMBDA s :
        IF Len(s) = 0 THEN s
        ELSE lower_char(SubSeq(s, 1, 1)) \o lower(SubSeq(s, 2, Len(s))))

\* the keys of a dict as a sequence (the order in which it is iterated and
\* written; one fixed order per key set)
RECURSIVE KeySeq(_)
KeySeq(keys) ==
    Once(keys, LAMBDA S :
        IF S = {} THEN <<>>
        ELSE Once(CHOOSE x \in S : TRUE,
                  LAMBDA k : <<k>> \o KeySeq(S \ {k})))

-----------------------------------------------------------------------------
(* The cache file *)

CACHE_FILENAME == "cache.json"

\* The text of the file is a sequence of chunks: an opening brace, one chunk
\* per top-level member, a closing brace.  A member holds the JSON text of
\* its value: an object, an array, a string, a number, true, false or null.
LBrace == [tok |-> "{"]
RBrace == [tok |-> "}"]
Member(k, val) == [tok |-> "member", key |-> k, value |-> val]

\* the JSON text json.dump writes for a value: a dict is an object, a list
\* or a tuple an array (the keys of the dicts of the model are strings)
RECURSIVE json_encode(_)
json_encode(obj) ==
    Once(obj, LAMBDA o : Once(type(o), LAMBDA ty :
        IF ty = "str" THEN [j |-> "string", s |-> o]
        ELSE IF ty = "dict"
        THEN Once(KeySeq(DOMAIN o.v), LAMBDA keys :
                 [j |-> "object",
                  members |-> [i \in 1..Len(keys) |->
                                  [key |-> keys[i],
                                   value |-> json_encode(o.v[keys[i]])]]])
        ELSE IF ty \in {"list", "tuple"}
        THEN [j |-> "array",
              items |-> [i \in DOMAIN o.v |-> json_encode(o.v[i])]]
        ELSE IF ty = "int" THEN [j |-> "number", n |-> o.v]
        ELSE IF ty = "bool" THEN [j |-> IF o.v THEN "true" ELSE "false"]
        ELSE [j |-> "null"]))

\* json.dump(cache_dict, fobj, indent=4)
json_dump(cache_dict) ==
    LET keys == KeySeq(DOMAIN cache_dict)
    IN  <<LBrace>>
        \o [i \in 1..Len(keys) |->
               Member(keys[i], json_encode(cache_dict[keys[i]]))]
        \o <<RBrace>>

\* the value json.load makes of a JSON text: an object is a dict, an array
\* a list
RECURSIVE json_decode(_)

\* the dict of a sequence of members; a repeated key keeps its last value
members_to_dict(members) ==
    Once(members, LAMBDA ms :
        [k \in {ms[i].key : i \in DOMAIN ms} |->
            LET i == CHOOSE j \in DOMAIN ms :
                         /\ ms[j].key = k
                         /\ \A n \in DOMAIN ms : n > j => ms[n].key # k
            IN  json_decode(ms[i].value)])

\* a json_decode that reads every number and boolean as null
json_decode_strings_only(text) ==
    Once(text, LAMBDA x :
        IF x.j = "string" THEN x.s
        ELSE IF x.j = "object" THEN PyDict(members_to_dict(x.members))
        ELSE IF x.j = "array"
        THEN PyList([i \in DOMAIN x.items |-> json_decode(x.items[i])])
        ELSE None)

json_decode(text) ==
    Once(text, LAMBDA x :
        IF x.j = "string" THEN x.s
        ELSE IF x.j = "object" THEN PyDict(members_to_dict(x.members))
        ELSE IF x.j = "array"
        THEN PyList([i \in DOMAIN x.items |-> json_decode(x.items[i])])
        ELSE IF x.j = "number" THEN PyInt(x.n)
        ELSE IF x.j = "true" THEN PyBool(TRUE)
        ELSE IF x.j = "false" THEN PyBool(FALSE)
        ELSE None)

\* json.load(fobj): the text must be one complete object
json_load(text) ==
    IF /\ Len(text) >= 2
       /\ text[1] = LBrace
       /\ text[Len(text)] = RBrace
       /\ \A i \in 2..(Len(text) - 1) : text[i].tok = "member"
    THEN [exc |-> "", val |-> members_to_dict(SubSeq(text, 2, Len(text) - 1))]
    ELSE [exc |-> "JSONDecodeError", val |-> EmptyDict]

\* an open_cache that takes an unparseable file for an empty one
open_cache_forgiving(f) ==
    IF ~f.exists THEN [exc |-> "", val |-> EmptyDict]
    ELSE [exc |-> "", val |-> json_load(f.text).val]

\* open_cache(filename): an absent file gives {}, an unparseable one raises
open_cache(f) ==
    IF ~f.exists THEN [exc |-> "", val |-> EmptyDict]
    ELSE json_load(f.text)

\* a save_cache that writes to another file name: cache.json is not there
save_cache_elsewhere(cache_dict) == [exists |-> FALSE, text |-> <<>>]

\* a save_cache that keeps the keys the file has and cache_dict has not
save_cache_merging(cache_dict) ==
    [exists |-> TRUE,
     text |-> json_dump([k \in DOMAIN cache_dict
                               \cup DOMAIN open_cache(file).val |->
                            IF k \in DOMAIN cache_dict THEN cache_dict[k]
                            ELSE open_cache(file).val[k]])]

\* save_cache(cache_dict, filename): open(filename, 'w') and json.dump
save_cache(cache_dict) == [exists |-> TRUE, text |-> json_dump(cache_dict)]

\* what open_cache would load now (the empty dict when it would raise)
Store == open_cache(file).val
Readable == open_cache(file).exc = ""

-----------------------------------------------------------------------------
(* The pages and responses the servers may send *)

NoElem == [present |-> FALSE, text |-> ""]
Elem(s) == [present |-> TRUE, text |-> s]

\* the index page: the navigation list (ul.dropdown-menu) and its anchors
Anchors ==
    { [text |-> "Michigan", has_href |-> TRUE, href |-> "/state/mi/index.htm"],
      [text |-> "Guam", has_href |-> FALSE, href |-> ""] }
IndexPages ==
    {[nav |-> FALSE, anchors |-> <<>>]}
    \cup {[nav |-> TRUE, anchors |-> s] : s \in SeqUpTo(Anchors, MaxStates)}

\* a state page: the list container (ul#list_parks) and its h3 headings
Headings ==
    { [has_a |-> TRUE, has_href |-> TRUE, href |-> "/isro/"],
      [has_a |-> TRUE, has_href |-> TRUE, href |-> "/kewe/"],
      [has_a |-> TRUE, has_href |-> FALSE, href |-> ""],
      [has_a |-> FALSE, has_href |-> FALSE, href |-> ""] }
StatePages ==
    {[list_parks |-> FALSE, h3 |-> <<>>]}
    \cup {[list_parks |-> TRUE, h3 |-> s] : s \in SeqUpTo(Headings, MaxSites)}

\* a site page: the header (div.Hero-titleContainer) with title and
\* designation, the footer (div.ParkFooter-contact) with the contact spans
SitePage(hd, ti, de, ft, lo, re, po, te) ==
    [header |-> hd, title |-> ti, designation |-> de,
     footer |-> ft, locality |-> lo, region |-> re,
     postalCode |-> po, telephone |-> te]
FullPage ==
    SitePage(TRUE, Elem(" Isle Royale "), Elem("National Park"),
             TRUE, Elem("Houghton"), Elem("MI "), Elem("49931\n"),
             Elem("(906) 482-0984"))
SitePages ==
    { FullPage,
      [FullPage EXCEPT !.postalCode = NoElem],
      [FullPage EXCEPT !.designation = Elem(" ")],
      [FullPage EXCEPT !.header = FALSE, !.title = NoElem,
                       !.designation = NoElem],
      [FullPage EXCEPT !.footer = FALSE, !.locality = NoElem,
                       !.region = NoElem, !.postalCode = NoElem,
                       !.telephone = NoElem] }

\* the body of a MapQuest response, parsed by response.json()
Place ==
    PyDict([name |-> "Cafe",
            fields |-> PyDict([group_sic_code_name |-> "",
                               address |-> "1 Main St",
                               city |-> "Houghton"])])
ApiBodies ==
    { PyDict([searchResults |-> PyList(<<Place>>)]) }

\* what requests.get may answer to the radius search
ApiResponses ==
    {[is_json |-> TRUE, body |-> b] : b \in ApiBodies}
    \cup {[is_json |-> FALSE, body |-> None]}

\* the status codes a server may answer with, and the bodies that may come
\* with any of them: a page without the element the resolver looks for, a
\* page that has it, a state page whose heading links to the state's own
\* directory, a body that is no JSON, an error report in JSON
HttpStatuses == {200, 404}
HttpIndexPages ==
    { [nav |-> FALSE, anchors |-> <<>>],
      [nav |-> TRUE,
       anchors |-> <<[text |-> "Michigan", has_href |-> TRUE,
                      href |-> "/state/mi/index.htm"]>>] }
HttpStatePages ==
    { [list_parks |-> FALSE, h3 |-> <<>>],
      [list_parks |-> TRUE,
       h3 |-> <<[has_a |-> TRUE, has_href |-> TRUE, href |-> "/isro/"]>>],
      [list_parks |-> TRUE,
       h3 |-> <<[has_a |-> TRUE, has_href |-> TRUE,
                 href |-> "/state/mi/"]>>] }
HttpSitePages ==
    { [FullPage EXCEPT !.header = FALSE, !.title = NoElem,
                       !.designation = NoElem],
      FullPage }
HttpApiResponses ==
    { [is_json |-> FALSE, body |-> None],
      [is_json |-> TRUE,
       body |-> PyDict([info |-> PyDict([statuscode |-> PyInt(403)])])] }

-----------------------------------------------------------------------------
(* The pure parts of the resolvers *)

baseurl == "https://www.nps.gov"
index_path == "/index.htm"          \* in build_state_url_dict
site_index_path == "index.htm"      \* index_path in get_sites_for_state
index_url == baseurl \o index_path
api_url == "http://www.mapquestapi.com/search/v2/radius"

Ok(val) == [exc |-> "", val |-> val]
Err(cls) == [exc |-> cls, val |-> None]

\* requests.get refuses a URL that names no scheme
IsURL(url) == Len(url) >= 4 /\ SubSeq(url, 1, 4) = "http"

\* obj[key] for a cached value
subscript(obj, key) ==
    IF type(obj) = "dict"
    THEN IF key \in DOMAIN obj.v THEN Ok(obj.v[key]) ELSE Err("KeyError")
    ELSE Err("TypeError")

\* the sequence a for loop over obj runs through
iterate(obj) ==
    IF type(obj) = "dict" THEN KeySeq(DOMAIN obj.v) ELSE obj.v

NationalSite(category, name, address, zipcode, phone) ==
    [t |-> "NationalSite", category |-> category, name |-> name,
     address |-> address, zipcode |-> zipcode, phone |-> phone]

\* the for loop of build_state_url_dict: a later anchor with the same
\* lower-cased text overwrites an earlier one
state_dict_loop(state_list) ==
    [k \in {lower(state_list[i].text) : i \in DOMAIN state_list} |->
        LET i == CHOOSE j \in DOMAIN state_list :
                     /\ lower(state_list[j].text) = k
                     /\ \A n \in DOMAIN state_list :
                            n > j => lower(state_list[n].text) # k
        IN  baseurl \o state_list[i].href]

\* build_state_url_dict, from the fetched page to state_dict
parse_index(soup) ==
    IF ~soup.nav THEN Err("AttributeError")
    ELSE IF \E i \in DOMAIN soup.anchors : ~soup.anchors[i].has_href
    THEN Err("KeyError")
    ELSE Ok(PyDict(state_dict_loop(soup.anchors)))

\* the URL get_sites_for_state makes of one heading
site_url_of(site) == baseurl \o site.href \o site_index_path

\* a parse_state that takes a page without the list for a page with an
\* empty list
parse_state_no_list_is_empty(soup) ==
    IF ~soup.list_parks THEN Ok(PyList(<<>>))
    ELSE LET bad == {i \in DOMAIN soup.h3 :
                        ~soup.h3[i].has_a \/ ~soup.h3[i].has_href}
         IN  IF bad # {}
             THEN LET i == CHOOSE j \in bad : \A k \in bad : j <= k
                  IN  IF soup.h3[i].has_a THEN Err("KeyError")
                      ELSE Err("TypeError")
             ELSE Ok(PyList([i \in DOMAIN soup.h3 |-> site_url_of(soup.h3[i])]))

\* get_sites_for_state, from the fetched page to site_urls
parse_state(soup) ==
    IF ~soup.list_parks THEN Err("AttributeError")
    ELSE LET bad == {i \in DOMAIN soup.h3 :
                        ~soup.h3[i].has_a \/ ~soup.h3[i].has_href}
         IN  IF bad # {}
             THEN LET i == CHOOSE j \in bad : \A k \in bad : j <= k
                  IN  IF soup.h3[i].has_a THEN Err("KeyError")
                      ELSE Err("TypeError")
             ELSE Ok(PyList([i \in DOMAIN soup.h3 |-> site_url_of(soup.h3[i])]))

\* a text_or that forgets strip()
text_or_unstripped(elem, sentinel) ==
    IF elem.present THEN elem.text ELSE sentinel

\* a text_or that takes blank text for a missing element
text_or_blank_is_missing(elem, sentinel) ==
    IF elem.present /\ strip(elem.text) # "" THEN strip(elem.text)
    ELSE sentinel

\* try: x = x.text.strip() / except AttributeError: x = "No ..."
text_or(elem, sentinel) ==
    IF elem.present THEN strip(elem.text) ELSE sentinel

\* try: address = f"{local.text.strip()}, {region.text.strip()}"
address_or(local, region, sentinel) ==
    IF local.present /\ region.present
    THEN strip(local.text) \o ", " \o strip(region.text)
    ELSE sentinel

\* get_site_instance, from the fetched page to the five attributes
parse_site(soup) ==
    IF ~soup.header THEN Err("AttributeError")
    ELSE IF ~soup.footer THEN Err("AttributeError")
    ELSE Ok(NationalSite(text_or(soup.designation, "No category"),
                         text_or(soup.title, "No name"),
                         address_or(soup.locality, soup.region, "No address"),
                         text_or(soup.postalCode, "No zipcode"),
                         text_or(soup.telephone, "No phone")))

\* the dict get_site_instance stores for a site
site_entry(site) ==
    PyDict([category |-> site.category, name |-> site.name,
            address |-> site.address, zipcode |-> site.zipcode,
            phone |-> site.phone])

\* a site_from_cache that passes name and category in each other's place
site_from_cache_swapped(obj) ==
    IF obj.t # "dict" THEN Err("TypeError")
    ELSE IF ~({"category", "name", "address", "zipcode", "phone"}
                 \subseteq DOMAIN obj.v)
    THEN Err("KeyError")
    ELSE Ok(NationalSite(obj.v.name, obj.v.category, obj.v.address,
                         obj.v.zipcode, obj.v.phone))

\* get_site_instance on a hit: the site made of the cached value
site_from_cache(obj) ==
    LET category == subscript(obj, "category")
        name == subscript(obj, "name")
        address == subscript(obj, "address")
        zipcode == subscript(obj, "zipcode")
        phone == subscript(obj, "phone")
    IN  IF category.exc # "" THEN Err(category.exc)
        ELSE IF name.exc # "" THEN Err(name.exc)
        ELSE IF address.exc # "" THEN Err(address.exc)
        ELSE IF zipcode.exc # "" THEN Err(zipcode.exc)
        ELSE IF phone.exc # "" THEN Err(phone.exc)
        ELSE Ok(NationalSite(category.val, name.val, address.val,
                             zipcode.val, phone.val))

\* response.json()
response_json(response) ==
    IF response.is_json THEN Ok(response.body) ELSE Err("JSONDecodeError")

-----------------------------------------------------------------------------
(* Calls and their frames *)

BUILD == "build_state_url_dict"
SITE == "get_site_instance"
SITES == "get_sites_for_state"
NEARBY == "get_nearby_places"
SAVE == "save_cache"
OPEN == "open_cache"

\* the frame of a call: the function, where it stands, its argument and its
\* local variables; nreq counts the requests.get calls made on its behalf,
\* sent those it made itself, status is the status code of the response to
\* its request (0 when it has none), before keeps the dict open_cache gave it
Frame(fn, arg) ==
    [fn |-> fn, pc |-> "open", arg |-> arg, cache_dict |-> EmptyDict,
     soup |-> None, site_urls |-> None, sites |-> <<>>, nreq |-> 0,
     sent |-> 0, status |-> 0, before |-> EmptyDict]

\* the cache key a call resolves (the file name for save_cache, open_cache)
CallKey(f) ==
    IF f.fn = BUILD THEN index_url
    ELSE IF f.fn = NEARBY THEN f.arg.zipcode
    ELSE IF f.fn \in {SAVE, OPEN} THEN CACHE_FILENAME
    ELSE f.arg

\* the URL a call requests on a miss
CallURL(f) == IF f.fn = NEARBY THEN api_url ELSE CallKey(f)

\* what the server may answer to the request of a call
Answers(f) ==
    IF f.fn = BUILD THEN IndexPages
    ELSE IF f.fn = SITES THEN StatePages
    ELSE IF f.fn = SITE THEN SitePages
    ELSE ApiResponses

\* what a server that answers with any status may send
HttpAnswers(f) ==
    IF f.fn = BUILD THEN HttpIndexPages
    ELSE IF f.fn = SITES THEN HttpStatePages
    ELSE IF f.fn = SITE THEN HttpSitePages
    ELSE HttpApiResponses

\* how a call ended: exc is the exception it raised ("" when it returned
\* val), nreq the requests made, again whether a call for the same key had
\* succeeded before, arg its argument, soup, site_urls, sent, status and
\* before its locals at the end
NoCall ==
    [fn |-> "", key |-> "", exc |-> "", val |-> None, nreq |-> 0,
     again |-> FALSE, arg |-> None, soup |-> None, site_urls |-> None,
     sent |-> 0, status |-> 0, before |-> EmptyDict]

Running(p) == stack[p] # <<>>
Top(p) == stack[p][Len(stack[p])]
At(p, fn, pc) == Running(p) /\ Top(p).fn = fn /\ Top(p).pc = pc
SetTop(p, f) == [stack EXCEPT ![p] = [@ EXCEPT ![Len(@)] = f]]

RECURSIVE SumReq(_)
SumReq(frames) ==
    IF Len(frames) = 0 THEN 0
    ELSE frames[1].nreq + SumReq(Tail(frames))

\* the call at the top, in state f, raises cls: no resolver catches it, so
\* every frame of the process is left at once; last describes the call
\* that raised, with the requests of all the calls left
Raise(p, f, cls) ==
    /\ stack' = [stack EXCEPT ![p] = <<>>]
    /\ last' = [last EXCEPT ![p] =
            [fn |-> f.fn, key |-> CallKey(f), exc |-> cls,
             val |-> None, nreq |-> SumReq(SetTop(p, f)[p]),
             again |-> <<f.fn, CallKey(f)>> \in DOMAIN first,
             arg |-> f.arg, soup |-> f.soup, site_urls |-> f.site_urls,
             sent |-> f.sent, status |-> f.status, before |-> f.before]]
    /\ UNCHANGED first

\* a list_append that puts the site in front
list_prepend(sites, site) == <<site>> \o sites

\* sites.append(site)
list_append(sites, site) == Append(sites, site)

\* the call at the top, in state f, returns val; a caller (the for loop of
\* get_sites_for_state) appends it to sites
Return(p, f, val) ==
    LET k == <<f.fn, CallKey(f)>>
        n == Len(stack[p])
    IN  /\ stack' = [stack EXCEPT ![p] =
                IF n = 1 THEN <<>>
                ELSE [i \in 1..(n - 1) |->
                         IF i = n - 1
                         THEN [@[i] EXCEPT !.sites = list_append(@, val),
                                           !.nreq = @ + f.nreq]
                         ELSE @[i]]]
        /\ last' = [last EXCEPT ![p] =
                [fn |-> f.fn, key |-> CallKey(f), exc |-> "", val |-> val,
                 nreq |-> f.nreq, again |-> k \in DOMAIN first,
                 arg |-> f.arg, soup |-> f.soup, site_urls |-> f.site_urls,
                 sent |-> f.sent, status |-> f.status,
                 before |-> f.before]]
        /\ first' = IF k \in DOMAIN first THEN first ELSE (k :> val) @@ first

\* a Put that starts a new dict
Put_alone(cache_dict, key, val) == [k \in {key} |-> val]

\* a Put that is forgotten
Put_forgotten(cache_dict, key, val) == cache_dict

\* a Put that does not store a list
Put_unless_list(cache_dict, key, val) ==
    IF type(val) = "list" THEN cache_dict
    ELSE [k \in DOMAIN cache_dict \cup {key} |->
             IF k = key THEN val ELSE cache_dict[k]]

\* a Put into the dict the outermost call of process 1 loaded, as if the
\* cache were loaded once and kept
Put_into_first_snapshot(cache_dict, key, val) ==
    LET kept == IF stack[1] # <<>> /\ stack[1][1].pc # "open"
                THEN stack[1][1].before ELSE cache_dict
    IN  [k \in DOMAIN kept \cup {key} |-> IF k = key THEN val ELSE kept[k]]

\* cache_dict[key] = val
Put(cache_dict, key, val) ==
    [k \in DOMAIN cache_dict \cup {key} |->
        IF k = key THEN val ELSE cache_dict[k]]

-----------------------------------------------------------------------------
(* The resolvers, step by step *)

\* soup = get_soup(url) or response = requests.get(...): the request of a
\* call that missed the cache
get_soup(p) ==
    /\ Running(p) /\ Top(p).pc = "fetch"
    /\ LET f == [Top(p) EXCEPT !.nreq = @ + 1, !.sent = @ + 1]
       IN  IF ~IsURL(CallURL(f))
           THEN Raise(p, Top(p), "MissingSchema")
           ELSE \/ \E soup \in Answers(f) :
                     /\ stack' = SetTop(p, [f EXCEPT !.soup = soup,
                                                     !.status = 200,
                                                     !.pc = "parse"])
                     /\ UNCHANGED <<last, first>>
                \/ Raise(p, f, "ConnectionError")
    /\ UNCHANGED <<file, main, live>>

\* the same request, answered with any status code: requests.get returns a
\* response that is no success as it returns any other
get_soup_any_status(p) ==
    /\ Running(p) /\ Top(p).pc = "fetch"
    /\ LET f == [Top(p) EXCEPT !.nreq = @ + 1, !.sent = @ + 1]
       IN  IF ~IsURL(CallURL(f))
           THEN Raise(p, Top(p), "MissingSchema")
           ELSE \/ \E status \in HttpStatuses, soup \in HttpAnswers(f) :
                     /\ stack' = SetTop(p, [f EXCEPT !.soup = soup,
                                                     !.status = status,
                                                     !.pc = "parse"])
                     /\ UNCHANGED <<last, first>>
                \/ Raise(p, f, "ConnectionError")
    /\ UNCHANGED <<file, main, live>>

\* build_state_url_dict up to its request: open_cache and the lookup
build_state_url_dict_open(p) ==
    /\ At(p, BUILD, "open")
    /\ \E c \in {open_cache(file)} :
       LET f == [Top(p) EXCEPT !.cache_dict = c.val, !.before = c.val]
       IN  IF c.exc # "" THEN Raise(p, Top(p), c.exc)
           ELSE IF index_url \in DOMAIN c.val
           THEN Return(p, f, c.val[index_url])
           ELSE /\ stack' = SetTop(p, [f EXCEPT !.pc = "fetch"])
                /\ UNCHANGED <<last, first>>
    /\ UNCHANGED <<file, main, live>>

\* build_state_url_dict after its request: parse, store, save, return
build_state_url_dict_parse(p) ==
    /\ At(p, BUILD, "parse")
    /\ LET r == parse_index(Top(p).soup)
           cache_dict == Put(Top(p).cache_dict, index_url, r.val)
       IN  IF r.exc # ""
           THEN Raise(p, Top(p), r.exc) /\ UNCHANGED file
           ELSE /\ file' = save_cache(cache_dict)
                /\ Return(p, [Top(p) EXCEPT !.cache_dict = cache_dict], r.val)
    /\ UNCHANGED <<main, live>>

\* get_site_instance up to its request
get_site_instance_open(p) ==
    /\ At(p, SITE, "open")
    /\ \E c \in {open_cache(file)} :
       LET site_url == Top(p).arg
           f == [Top(p) EXCEPT !.cache_dict = c.val, !.before = c.val]
       IN  IF c.exc # "" THEN Raise(p, Top(p), c.exc)
           ELSE IF site_url \in DOMAIN c.val
           THEN LET site == site_from_cache(c.val[site_url])
                IN  IF site.exc # "" THEN Raise(p, f, site.exc)
                    ELSE Return(p, f, site.val)
           ELSE /\ stack' = SetTop(p, [f EXCEPT !.pc = "fetch"])
                /\ UNCHANGED <<last, first>>
    /\ UNCHANGED <<file, main, live>>

\* get_site_instance after its request
get_site_instance_parse(p) ==
    /\ At(p, SITE, "parse")
    /\ LET site == parse_site(Top(p).soup)
           cache_dict == Put(Top(p).cache_dict, Top(p).arg,
                             site_entry(site.val))
       IN  IF site.exc # ""
           THEN Raise(p, Top(p), site.exc) /\ UNCHANGED file
           ELSE /\ file' = save_cache(cache_dict)
                /\ Return(p, [Top(p) EXCEPT !.cache_dict = cache_dict],
                          site.val)
    /\ UNCHANGED <<main, live>>

\* get_sites_for_state up to its request
get_sites_for_state_open(p) ==
    /\ At(p, SITES, "open")
    /\ \E c \in {open_cache(file)} :
       LET state_url == Top(p).arg
           f == [Top(p) EXCEPT !.cache_dict = c.val, !.before = c.val]
       IN  IF c.exc # "" THEN Raise(p, Top(p), c.exc)
           ELSE /\ stack' = SetTop(p,
                        IF state_url \in DOMAIN c.val
                        THEN [f EXCEPT !.site_urls = c.val[state_url],
                                       !.pc = "loop"]
                        ELSE [f EXCEPT !.pc = "fetch"])
                /\ UNCHANGED <<last, first>>
    /\ UNCHANGED <<file, main, live>>

\* get_sites_for_state after its request
get_sites_for_state_parse(p) ==
    /\ At(p, SITES, "parse")
    /\ LET r == parse_state(Top(p).soup)
           cache_dict == Put(Top(p).cache_dict, Top(p).arg, r.val)
       IN  IF r.exc # ""
           THEN Raise(p, Top(p), r.exc) /\ UNCHANGED file
           ELSE /\ file' = save_cache(cache_dict)
                /\ stack' = SetTop(p, [Top(p) EXCEPT
                                           !.cache_dict = cache_dict,
                                           !.site_urls = r.val,
                                           !.pc = "loop"])
                /\ UNCHANGED <<last, first>>
    /\ UNCHANGED <<main, live>>

\* get_sites_for_state, the for loop over site_urls: call get_site_instance
\* for the next URL, or return sites after the last
get_sites_for_state_loop(p) ==
    /\ At(p, SITES, "loop")
    /\ LET urls == iterate(Top(p).site_urls)
           i == Len(Top(p).sites) + 1
       IN  IF i > Len(urls)
           THEN Return(p, Top(p), PyList(Top(p).sites))
           ELSE /\ stack' = [stack EXCEPT ![p] =
                                 Append(@, Frame(SITE, urls[i]))]
                /\ UNCHANGED <<last, first>>
    /\ UNCHANGED <<file, main, live>>

\* get_nearby_places up to its request
get_nearby_places_open(p) ==
    /\ At(p, NEARBY, "open")
    /\ \E c \in {open_cache(file)} :
       LET zipcode == Top(p).arg.zipcode
           f == [Top(p) EXCEPT !.cache_dict = c.val, !.before = c.val]
       IN  IF c.exc # "" THEN Raise(p, Top(p), c.exc)
           ELSE IF zipcode \in DOMAIN c.val
           THEN Return(p, f, c.val[zipcode])
           ELSE /\ stack' = SetTop(p, [f EXCEPT !.pc = "fetch"])
                /\ UNCHANGED <<last, first>>
    /\ UNCHANGED <<file, main, live>>

\* get_nearby_places after its request
get_nearby_places_parse(p) ==
    /\ At(p, NEARBY, "parse")
    /\ LET place_dict == response_json(Top(p).soup)
           cache_dict == Put(Top(p).cache_dict, Top(p).arg.zipcode,
                             place_dict.val)
       IN  IF place_dict.exc # ""
           THEN Raise(p, Top(p), place_dict.exc) /\ UNCHANGED file
           ELSE /\ file' = save_cache(cache_dict)
                /\ Return(p, [Top(p) EXCEPT !.cache_dict = cache_dict],
                          place_dict.val)
    /\ UNCHANGED <<main, live>>

Step(p) ==
    \/ get_soup(p)
    \/ build_state_url_dict_open(p)
    \/ build_state_url_dict_parse(p)
    \/ get_site_instance_open(p)
    \/ get_site_instance_parse(p)
    \/ get_sites_for_state_open(p)
    \/ get_sites_for_state_parse(p)
    \/ get_sites_for_state_loop(p)
    \/ get_nearby_places_open(p)
    \/ get_nearby_places_parse(p)

-----------------------------------------------------------------------------
(* The resolvers called as a library, in any order *)

StateUrlArgs == {baseurl \o "/state/mi/index.htm"}
SiteUrlArgs == {site_url_of(h) : h \in {x \in Headings : x.has_href}}
\* the site objects a caller holds: those get_site_instance has returned
SiteArgs == {first[k] : k \in {x \in DOMAIN first : x[1] = SITE}}

Call(p, fn, arg) ==
    /\ main.pc = "lib"
    /\ ~Running(p)
    /\ stack' = [stack EXCEPT ![p] = <<Frame(fn, arg)>>]
    /\ UNCHANGED <<file, last, main, live, first>>

CallBuild(p) == Call(p, BUILD, "")
CallSites(p) == \E u \in StateUrlArgs : Call(p, SITES, u)
CallSite(p) == \E u \in SiteUrlArgs : Call(p, SITE, u)
CallNearby(p) == \E site \in SiteArgs : Call(p, NEARBY, site)

\* save_cache(cache_dict, CACHE_FILENAME) called on its own
save_cache_call(p) ==
    /\ At(p, SAVE, "open")
    /\ file' = save_cache(Top(p).arg)
    /\ Return(p, Top(p), None)
    /\ UNCHANGED <<main, live>>

\* open_cache(CACHE_FILENAME) called on its own
CallOpen(p) == Call(p, OPEN, CACHE_FILENAME)
open_cache_call(p) ==
    /\ At(p, OPEN, "open")
    /\ \E c \in {open_cache(file)} :
           IF c.exc # "" THEN Raise(p, Top(p), c.exc)
           ELSE Return(p, Top(p), c.val)
    /\ UNCHANGED <<file, main, live>>

-----------------------------------------------------------------------------
(* The __main__ block, run by process 1 *)

StateInputs == {"Michigan", "ohio", "exit"}
DetailInputs == {"exit", "back", "-1", "0", "1", "2", "3", "x"}

Digits == <<"0", "1", "2", "3", "4", "5", "6", "7", "8", "9">>
IsDigit(c) == \E i \in DOMAIN Digits : Digits[i] = c
digit_value(c) == (CHOOSE i \in DOMAIN Digits : Digits[i] = c) - 1
RECURSIVE int_value(_)
int_value(str) ==
    Once(str, LAMBDA s :
        IF Len(s) = 0 THEN 0
        ELSE 10 * int_value(SubSeq(s, 1, Len(s) - 1))
             + digit_value(SubSeq(s, Len(s), Len(s))))
\* int(detail) for the inputs of the model: decimal digits with or without
\* a minus sign, or ValueError
int(s) ==
    LET digits == IF Len(s) > 0 /\ SubSeq(s, 1, 1) = "-"
                  THEN SubSeq(s, 2, Len(s)) ELSE s
    IN  IF /\ Len(digits) > 0
           /\ \A i \in 1..Len(digits) : IsDigit(SubSeq(digits, i, i))
        THEN Ok(IF digits = s THEN int_value(digits)
                ELSE 0 - int_value(digits))
        ELSE Err("ValueError")

\* sites[i]: a negative index counts from the end
getitem(sites, i) ==
    IF i >= 0 /\ i < Len(sites) THEN Ok(sites[i + 1])
    ELSE IF i < 0 /\ 0 - i <= Len(sites) THEN Ok(sites[Len(sites) + i + 1])
    ELSE Err("IndexError")

\* an out_of_range that lets every number below the list pass
out_of_range_above_only(n, counter) == n > counter - 1

\* int(detail) > counter - 1 or int(detail) < 1
out_of_range(n, counter) == n > counter - 1 \/ n < 1

\* the exception building temp_dict of one place raises, "" when none
temp_dict_exc(place) ==
    LET name == subscript(place, "name")
        fields == subscript(place, "fields")
    IN  IF name.exc # "" THEN name.exc
        ELSE IF fields.exc # "" THEN fields.exc
        ELSE LET bad == {k \in {"group_sic_code_name", "address", "city"} :
                            subscript(fields.val, k).exc # ""}
             IN  IF bad = {} THEN ""
                 ELSE subscript(fields.val, CHOOSE k \in bad : TRUE).exc

\* print_places(place_dict): the exception it raises, "" when it prints
print_places(place_dict) ==
    LET r == subscript(place_dict, "searchResults")
    IN  IF r.exc # "" THEN r.exc
        ELSE IF type(r.val) \notin {"list", "dict", "tuple", "str"}
        THEN "TypeError"
        ELSE LET places == IF type(r.val) = "str"
                           THEN [i \in 1..Len(r.val) |-> SubSeq(r.val, i, i)]
                           ELSE iterate(r.val)
                 bad == {i \in DOMAIN places : temp_dict_exc(places[i]) # ""}
             IN  IF bad = {} THEN ""
                 ELSE temp_dict_exc(
                          places[CHOOSE i \in bad : \A k \in bad : i <= k])

\* a no_zipcode that never skips
no_zipcode_never(site) == FALSE

\* sites[int(detail) - 1].zipcode == "No zipcode"
no_zipcode(site) == site.zipcode = "No zipcode"

NoMain ==
    [pc |-> "lib", state_dict |-> None, state |-> "", sites |-> <<>>,
     counter |-> 0, detail |-> "", printed |-> "", exc |-> ""]

MainCall(fn, arg, pc) ==
    /\ stack' = [stack EXCEPT ![1] = <<Frame(fn, arg)>>]
    /\ main' = [main EXCEPT !.pc = pc]

\* an exception no except clause catches ends the program
Uncaught(m, cls) == [m EXCEPT !.pc = "dead", !.exc = cls]
\* except KeyError: print("Enter proper state name."); continue
ExceptKeyError(m) ==
    [m EXCEPT !.pc = "prompt", !.printed = "Enter proper state name."]
Handle(m, cls) ==
    IF cls = "KeyError" THEN ExceptKeyError(m) ELSE Uncaught(m, cls)

\* state_dict = build_state_url_dict()
main_build ==
    /\ main.pc = "start"
    /\ MainCall(BUILD, "", "build")
    /\ UNCHANGED <<file, last, live, first>>

main_built ==
    /\ main.pc = "build" /\ ~Running(1)
    /\ main' = IF last[1].exc # "" THEN Uncaught(main, last[1].exc)
               ELSE [main EXCEPT !.pc = "prompt", !.state_dict = last[1].val]
    /\ UNCHANGED <<file, stack, last, live, first>>

\* state = input(prompt).lower() up to the call get_sites_for_state
main_state ==
    /\ main.pc = "prompt"
    /\ \E text \in StateInputs :
        LET state == lower(text)
            m == [main EXCEPT !.state = state]
            state_url == subscript(main.state_dict, state)
        IN  IF state = "exit"
            THEN main' = [m EXCEPT !.pc = "done"] /\ UNCHANGED stack
            ELSE IF state_url.exc # ""
            THEN main' = Handle(m, state_url.exc) /\ UNCHANGED stack
            ELSE /\ stack' = [stack EXCEPT ![1] =
                                  <<Frame(SITES, state_url.val)>>]
                 /\ main' = [m EXCEPT !.pc = "sites"]
    /\ UNCHANGED <<file, last, live, first>>

\* sites = get_sites_for_state(...) has ended: print the numbered list
main_sites ==
    /\ main.pc = "sites" /\ ~Running(1)
    /\ main' = IF last[1].exc # "" THEN Handle(main, last[1].exc)
               ELSE [main EXCEPT !.pc = "prompt2",
                                 !.sites = last[1].val.v,
                                 !.counter = Len(last[1].val.v) + 1,
                                 !.printed = "List of national sites"]
    /\ UNCHANGED <<file, stack, last, live, first>>

\* detail = input(prompt2) up to the call get_nearby_places
main_detail ==
    /\ main.pc = "prompt2"
    /\ \E detail \in DetailInputs :
        LET m == [main EXCEPT !.detail = detail]
            n == int(detail)
            site == getitem(main.sites, n.val - 1)
        IN  IF detail = "exit"
            THEN main' = [m EXCEPT !.pc = "done"] /\ UNCHANGED stack
            ELSE IF detail = "back"
            THEN main' = [m EXCEPT !.pc = "prompt"] /\ UNCHANGED stack
            ELSE IF n.exc # ""
            THEN main' = Handle(m, n.exc) /\ UNCHANGED stack
            ELSE IF out_of_range(n.val, main.counter)
            THEN /\ main' = [m EXCEPT !.printed = "[Error] Invalid input."]
                 /\ UNCHANGED stack
            ELSE IF site.exc # ""
            THEN main' = Handle(m, site.exc) /\ UNCHANGED stack
            ELSE IF no_zipcode(site.val)
            THEN /\ main' = [m EXCEPT !.printed =
                        "[Error] This site does not have location info"]
                 /\ UNCHANGED stack
            ELSE /\ stack' = [stack EXCEPT ![1] =
                                  <<Frame(NEARBY, site.val)>>]
                 /\ main' = [m EXCEPT !.pc = "nearby"]
    /\ UNCHANGED <<file, last, live, first>>

\* place_dict = get_nearby_places(...) has ended: print_places(place_dict)
main_nearby ==
    /\ main.pc = "nearby" /\ ~Running(1)
    /\ main' = IF last[1].exc # "" THEN Handle(main, last[1].exc)
               ELSE IF print_places(last[1].val) # ""
               THEN Handle(main, print_places(last[1].val))
               ELSE [main EXCEPT !.pc = "prompt2", !.printed = "Places near"]
    /\ UNCHANGED <<file, stack, last, live, first>>

-----------------------------------------------------------------------------
(* A process killed in the middle of a call *)

\* the value a call at "parse" is about to store under its key
entry_of(f) ==
    IF f.fn = BUILD THEN parse_index(f.soup)
    ELSE IF f.fn = SITES THEN parse_state(f.soup)
    ELSE IF f.fn = NEARBY THEN response_json(f.soup)
    ELSE LET site == parse_site(f.soup)
         IN  IF site.exc # "" THEN site ELSE Ok(site_entry(site.val))

\* no call of the process ends: its frames are gone
Killed(p) ==
    /\ main.pc = "lib"
    /\ Running(p)
    /\ stack' = [stack EXCEPT ![p] = <<>>]
    /\ UNCHANGED <<last, main, live, first>>

\* killed anywhere outside save_cache: the file is as it was
kill(p) == Killed(p) /\ UNCHANGED file

\* killed inside save_cache: open(filename, 'w') has emptied the file and
\* json.dump has written some of the text, n chunks of it
kill_in_save_cache(p) ==
    /\ Killed(p)
    /\ Top(p).pc = "parse"
    /\ entry_of(Top(p)).exc = ""
    /\ LET text == json_dump(Put(Top(p).cache_dict, CallKey(Top(p)),
                                 entry_of(Top(p)).val))
       IN  \E n \in 0..Len(text) :
               file' = [exists |-> TRUE, text |-> SubSeq(text, 1, n)]

-----------------------------------------------------------------------------
(* Specifications *)

NoFile == [exists |-> FALSE, text |-> <<>>]

Init ==
    /\ file = NoFile
    /\ stack = [p \in Procs |-> <<>>]
    /\ last = [p \in Procs |-> NoCall]
    /\ main = NoMain
    /\ live = {1}
    /\ first = <<>>

Calls(p) ==
    \/ CallBuild(p)
    \/ CallSites(p)
    \/ CallSite(p)
    \/ CallNearby(p)

\* one process calling the resolvers in any order
Next == \E p \in live : Calls(p) \/ Step(p)

Spec == Init /\ [][Next]_vars

\* the program, from its start
InitMain ==
    /\ file = NoFile
    /\ stack = [p \in Procs |-> <<>>]
    /\ last = [p \in Procs |-> NoCall]
    /\ main = [NoMain EXCEPT !.pc = "start"]
    /\ live = {1}
    /\ first = <<>>

NextMain ==
    \/ main_build
    \/ main_built
    \/ main_state
    \/ main_sites
    \/ main_detail
    \/ main_nearby
    \/ Step(1)

SpecMain == InitMain /\ [][NextMain]_vars

\* one process calling build_state_url_dict, get_site_instance and
\* open_cache in any order, killed at any point and started again
NextKill ==
    \E p \in live :
        \/ CallBuild(p)
        \/ CallSite(p)
        \/ CallOpen(p)
        \/ open_cache_call(p)
        \/ get_soup(p)
        \/ build_state_url_dict_open(p)
        \/ build_state_url_dict_parse(p)
        \/ get_site_instance_open(p)
        \/ get_site_instance_parse(p)
        \/ kill(p)
        \/ kill_in_save_cache(p)

SpecKill == Init /\ [][NextKill]_vars

\* get_site_instance on every shape of site page: the call has missed the
\* cache and fetched the page
ElemsOf(text) == {NoElem, Elem(" "), Elem(text)}
AllSitePages ==
    { page \in
        { SitePage(hd, ti, de, ft, lo, re, po, te) :
            hd \in BOOLEAN, ti \in ElemsOf(FullPage.title.text),
            de \in ElemsOf(FullPage.designation.text),
            ft \in BOOLEAN, lo \in ElemsOf(FullPage.locality.text),
            re \in ElemsOf(FullPage.region.text),
            po \in ElemsOf(FullPage.postalCode.text),
            te \in ElemsOf(FullPage.telephone.text) } :
        \* the elements of an absent region are absent
        /\ page.header \/ (page.title = NoElem /\ page.designation = NoElem)
        /\ page.footer \/ (/\ page.locality = NoElem /\ page.region = NoElem
                            /\ page.postalCode = NoElem
                            /\ page.telephone = NoElem) }

InitSite ==
    /\ file = NoFile
    /\ \E site_url \in SiteUrlArgs, soup \in AllSitePages :
           stack = [p \in Procs |->
                       IF p = 1
                       THEN <<[Frame(SITE, site_url) EXCEPT
                                   !.pc = "parse", !.soup = soup,
                                   !.nreq = 1]>>
                       ELSE <<>>]
    /\ last = [p \in Procs |-> NoCall]
    /\ main = NoMain
    /\ live = {1}
    /\ first = <<>>

NextSite ==
    \E p \in live :
        \/ CallSite(p)
        \/ get_soup(p)
        \/ get_site_instance_open(p)
        \/ get_site_instance_parse(p)

SpecSite == InitSite /\ [][NextSite]_vars

\* two processes calling get_site_instance on the same cache file, each
\* for a site of its own
OwnSite == <<site_url_of([href |-> "/isro/"]), site_url_of([href |-> "/kewe/"])>>
CallOwnSite(p) == Call(p, SITE, OwnSite[p])

InitTwo ==
    /\ file = NoFile
    /\ stack = [p \in Procs |-> <<>>]
    /\ last = [p \in Procs |-> NoCall]
    /\ main = NoMain
    /\ live = Procs
    /\ first = <<>>

NextTwo ==
    \E p \in live :
        \/ CallOwnSite(p)
        \/ get_soup(p)
        \/ get_site_instance_open(p)
        \/ get_site_instance_parse(p)

SpecTwo == InitTwo /\ [][NextTwo]_vars

\* one process calling the resolvers in any order, the servers answering
\* with any status
NextHttp ==
    \E p \in live :
        \/ Calls(p)
        \/ get_soup_any_status(p)
        \/ build_state_url_dict_open(p)
        \/ build_state_url_dict_parse(p)
        \/ get_site_instance_open(p)
        \/ get_site_instance_parse(p)
        \/ get_sites_for_state_open(p)
        \/ get_sites_for_state_parse(p)
        \/ get_sites_for_state_loop(p)
        \/ get_nearby_places_open(p)
        \/ get_nearby_places_parse(p)

SpecHttp == Init /\ [][NextHttp]_vars

\* save_cache of any store of JSON-like values, then open_cache.  The leaves
\* are strings, a number, a boolean and null; a value is a leaf, a list of
\* leaves, a dict of leaves, or a list or a dict of one such value.  A value
\* is drawn by its shape: <<"leaf", <<i>>>>, <<"list", <<i, ...>>>> and
\* <<"dict", <<i, j>>>> name leaves by their place in Leaves (0 in a dict:
\* the key is absent).
StoreKeys == {"https://www.nps.gov/index.htm", "49931"}
ItemKeys == <<"name", "zipcode">>
Leaves == <<"", "Isle Royale", PyInt(10), PyBool(FALSE), None>>
FlatShapes ==
    {<<"leaf", <<i>>>> : i \in DOMAIN Leaves}
    \cup {<<"list", s>> : s \in SeqUpTo(DOMAIN Leaves, MaxItems)}
    \cup {<<"dict", s>> : s \in [DOMAIN ItemKeys -> {0} \cup DOMAIN Leaves]}
FlatValue(shape) ==
    IF shape[1] = "leaf" THEN Leaves[shape[2][1]]
    ELSE IF shape[1] = "list"
    THEN PyList([i \in DOMAIN shape[2] |-> Leaves[shape[2][i]]])
    ELSE PyDict([k \in {ItemKeys[i] : i \in {n \in DOMAIN ItemKeys :
                                                shape[2][n] # 0}} |->
                    Leaves[shape[2][CHOOSE i \in DOMAIN ItemKeys :
                                        ItemKeys[i] = k]]])
JsonShapes == {<<wrap, shape>> : wrap \in {"", "list", "dict"},
                                 shape \in FlatShapes}
JsonValue(shape) ==
    IF shape[1] = "" THEN FlatValue(shape[2])
    ELSE IF shape[1] = "list" THEN PyList(<<FlatValue(shape[2])>>)
    ELSE PyDict([k \in {"fields"} |-> FlatValue(shape[2])])
StoreShapes ==
    UNION {[K -> {<<"", shape>> : shape \in FlatShapes}] :
              K \in SUBSET StoreKeys}
    \cup UNION {[{k} -> JsonShapes] : k \in StoreKeys}
StoreOf(shape) == [k \in DOMAIN shape |-> JsonValue(shape[k])]

InitRoundTrip ==
    /\ file = NoFile
    /\ \E shape \in StoreShapes :
           stack = [p \in Procs |->
                       IF p = 1 THEN <<Frame(SAVE, StoreOf(shape))>>
                       ELSE <<>>]
    /\ last = [p \in Procs |-> NoCall]
    /\ main = NoMain
    /\ live = {1}
    /\ first = <<>>

NextRoundTrip ==
    \E p \in live :
        \/ save_cache_call(p)
        \/ CallOpen(p)
        \/ open_cache_call(p)

SpecRoundTrip == InitRoundTrip /\ [][NextRoundTrip]_vars

-----------------------------------------------------------------------------
(* The claims *)

Fields == {"category", "name", "address", "zipcode", "phone"}

\* the call of p that ended most recently is a call of fn that returned
Returned(p, fn) == last[p].fn = fn /\ last[p].exc = ""
\* ... after a request (it had missed the cache)
Missed(p) == last[p].soup # None

\* the dict of the five attributes of a site
AsDict(site) == [t |-> "dict", v |-> [f \in Fields |-> site[f]]]

Blank(text) == \A i \in 1..Len(text) : SubSeq(text, i, i) \in Whitespace

\* s is text without the whitespace around it
IsStripped(s, text) ==
    /\ Len(s) > 0 =>
          /\ SubSeq(s, 1, 1) \notin Whitespace
          /\ SubSeq(s, Len(s), Len(s)) \notin Whitespace
    /\ \E i \in 1..(Len(text) - Len(s) + 1) :
          /\ SubSeq(text, i, i + Len(s) - 1) = s
          /\ \A k \in 1..(i - 1) : SubSeq(text, k, k) \in Whitespace
          /\ \A k \in (i + Len(s))..Len(text) :
                 SubSeq(text, k, k) \in Whitespace

\* a field made of one element: its stripped text, or the sentinel
FieldOf(val, elem, sentinel) ==
    IF elem.present THEN IsStripped(val, elem.text) ELSE val = sentinel

\* the address made of two elements: "<city>, <region>", or the sentinel
AddressOf(val, local, region, sentinel) ==
    IF local.present /\ region.present
    THEN \E n \in 0..(Len(val) - 2) :
            /\ IsStripped(SubSeq(val, 1, n), local.text)
            /\ SubSeq(val, n + 1, n + 2) = ", "
            /\ IsStripped(SubSeq(val, n + 3, Len(val)), region.text)
    ELSE val = sentinel

\* C1: a get_site_instance(u) that returns after an earlier one returned
\* gives a site with the same five attributes as the first, and makes no
\* request.
C1_Idempotent ==
    \A p \in Procs :
        (Returned(p, SITE) /\ last[p].again) =>
            /\ \A f \in Fields :
                   last[p].val[f] = first[<<SITE, last[p].key>>][f]
            /\ last[p].nreq = 0

C1_Witness ==
    \E p \in Procs : Returned(p, SITE) /\ last[p].again

\* C2: get_sites_for_state on a state page with n headings returns n sites,
\* each with its five attributes; once build_state_url_dict or
\* get_sites_for_state(u) has returned, a later run of it makes no request,
\* neither itself nor in the get_site_instance calls it makes.
C2_ResolvedOnce ==
    /\ \A p \in Procs :
          Returned(p, SITES) =>
             /\ Missed(p) => Len(last[p].val.v) = Len(last[p].soup.h3)
             /\ \A i \in DOMAIN last[p].val.v :
                    /\ last[p].val.v[i].t = "NationalSite"
                    /\ \A f \in Fields : last[p].val.v[i][f] \in STRING
             /\ last[p].again =>
                    /\ last[p].nreq = 0
                    /\ Len(last[p].val.v)
                           = Len(first[<<SITES, last[p].key>>].v)
    /\ \A p \in Procs :
          (Returned(p, BUILD) /\ last[p].again) => last[p].nreq = 0
    /\ \A p \in Procs :
          (/\ Running(p)
           /\ stack[p][1].fn \in {BUILD, SITES}
           /\ <<stack[p][1].fn, CallKey(stack[p][1])>> \in DOMAIN first) =>
              \A i \in DOMAIN stack[p] :
                  /\ stack[p][i].nreq = 0
                  /\ stack[p][i].pc \notin {"fetch", "parse"}

C2_Witness ==
    \E p \in Procs :
        /\ Returned(p, SITES) /\ last[p].again
        /\ Len(last[p].val.v) = 2
        /\ <<BUILD, index_url>> \in DOMAIN first

\* C3: no step removes a key of the persisted store or changes its value.
Kept(old, new) == \A k \in DOMAIN old : k \in DOMAIN new /\ new[k] = old[k]

C3_AppendOnly == [][file' # file => Kept(Store, Store')]_vars

C3_Witness ==
    /\ Cardinality(DOMAIN Store) >= 4
    /\ \E p \in Procs : last[p].again /\ last[p].exc = ""

\* C4, as claimed: no attribute of a site get_site_instance returns is the
\* empty string; an element that is absent or blank gives the sentinel.
C4_NeverEmpty ==
    \A p \in Procs :
        Returned(p, SITE) =>
            /\ \A f \in Fields : last[p].val[f] # ""
            /\ Missed(p) =>
                   \A e \in {<<"category", "designation">>,
                             <<"name", "title">>,
                             <<"zipcode", "postalCode">>,
                             <<"phone", "telephone">>} :
                       (\/ ~last[p].soup[e[2]].present
                        \/ Blank(last[p].soup[e[2]].text)) =>
                           last[p].val[e[1]] = "No " \o e[1]

\* C4, amended: an absent element gives the sentinel; a present element
\* gives its stripped text, the empty string when the text is blank (the
\* address of two blank elements is ", "); a hit gives the attributes of
\* the site the first call returned.
C4_SentinelWhenAbsent ==
    \A p \in Procs :
        Returned(p, SITE) =>
            /\ Missed(p) =>
                   /\ \A e \in {<<"category", "designation">>,
                                <<"name", "title">>,
                                <<"zipcode", "postalCode">>,
                                <<"phone", "telephone">>} :
                          LET elem == last[p].soup[e[2]]
                              val == last[p].val[e[1]]
                          IN  /\ ~elem.present => val = "No " \o e[1]
                              /\ elem.present =>
                                     (val = "" <=> Blank(elem.text))
                              /\ (elem.present /\ ~Blank(elem.text)) =>
                                     IsStripped(val, elem.text)
                   /\ (~last[p].soup.locality.present
                       \/ ~last[p].soup.region.present) =>
                          last[p].val.address = "No address"
                   /\ (/\ last[p].soup.locality.present
                       /\ last[p].soup.region.present
                       /\ Blank(last[p].soup.locality.text)
                       /\ Blank(last[p].soup.region.text)) =>
                          last[p].val.address = ", "
            /\ ~Missed(p) =>
                   \A f \in Fields :
                       last[p].val[f] = first[<<SITE, last[p].key>>][f]

C4_Witness ==
    \E p \in Procs :
        /\ Returned(p, SITE) /\ Missed(p)
        /\ last[p].soup.designation.present
        /\ ~last[p].soup.telephone.present
        /\ last[p].val.category = ""
        /\ last[p].val.phone = "No phone"

\* C5, as claimed: a site page without its header region does not make
\* get_site_instance fail; it returns and stores a site with the name
\* "No name" and the category "No category".
C5_MissingHeaderTolerated ==
    \A p \in Procs :
        (last[p].fn = SITE /\ Missed(p) /\ ~last[p].soup.header) =>
            /\ last[p].exc = ""
            /\ last[p].val.name = "No name"
            /\ last[p].val.category = "No category"
            /\ last[p].key \in DOMAIN Store

\* C6: on a miss with the header and the footer present get_site_instance
\* returns, and each attribute is the stripped text of its element or, when
\* the element is missing, its sentinel, whatever the other elements are.
C6_FieldsIndependent ==
    \A p \in Procs :
        (/\ last[p].fn = SITE /\ Missed(p)
         /\ last[p].soup.header /\ last[p].soup.footer) =>
            /\ last[p].exc = ""
            /\ FieldOf(last[p].val.category, last[p].soup.designation,
                       "No category")
            /\ FieldOf(last[p].val.name, last[p].soup.title, "No name")
            /\ AddressOf(last[p].val.address, last[p].soup.locality,
                         last[p].soup.region, "No address")
            /\ FieldOf(last[p].val.zipcode, last[p].soup.postalCode,
                       "No zipcode")
            /\ FieldOf(last[p].val.phone, last[p].soup.telephone,
                       "No phone")

C6_Witness ==
    \E p \in Procs :
        /\ Returned(p, SITE) /\ Missed(p)
        /\ ~last[p].soup.telephone.present
        /\ ~last[p].soup.region.present
        /\ last[p].val.phone = "No phone"
        /\ last[p].val.address = "No address"
        /\ last[p].val.name = "Isle Royale"
        /\ last[p].val.zipcode = "49931"

\* C7: the program never calls get_nearby_places for a site whose zipcode
\* is "No zipcode", and the store never has the key "No zipcode".
C7_NoZipcodeSkipped ==
    /\ \A p \in Procs : \A i \in DOMAIN stack[p] :
          stack[p][i].fn = NEARBY => stack[p][i].arg.zipcode # "No zipcode"
    /\ \A p \in Procs : last[p].fn = NEARBY => last[p].key # "No zipcode"
    /\ "No zipcode" \notin DOMAIN Store

C7_Witness ==
    /\ main.printed = "[Error] This site does not have location info"
    /\ main.sites[int(main.detail).val].zipcode = "No zipcode"

\* C8: get_sites_for_state stores the URLs of the headings in the order of
\* the page and returns the sites of the stored URLs in that order, on a
\* miss and on every hit.
C8_DocumentOrder ==
    \A p \in Procs :
        Returned(p, SITES) =>
            /\ last[p].key \in DOMAIN Store
            /\ Store[last[p].key] = last[p].site_urls
            /\ Missed(p) =>
                   last[p].site_urls.v =
                       [i \in 1..Len(last[p].soup.h3) |->
                           "https://www.nps.gov" \o last[p].soup.h3[i].href
                               \o "index.htm"]
            /\ Len(last[p].val.v) = Len(last[p].site_urls.v)
            /\ \A i \in DOMAIN last[p].val.v :
                   /\ last[p].site_urls.v[i] \in DOMAIN Store
                   /\ AsDict(last[p].val.v[i])
                          = Store[last[p].site_urls.v[i]]
            /\ last[p].again => last[p].val = first[<<SITES, last[p].key>>]

C8_Witness ==
    \E p \in Procs :
        /\ Returned(p, SITES) /\ last[p].again
        /\ Len(last[p].val.v) = 2
        /\ last[p].site_urls.v[1] # last[p].site_urls.v[2]
        /\ last[p].val.v[1] # last[p].val.v[2]

\* C9: when a call returns after a miss, the persisted store has its key
\* with the value it resolved (the attributes of the site for
\* get_site_instance, the URL list for get_sites_for_state, whose sites are
\* stored too), and every key the store had when the call began, unchanged.
C9_WrittenBeforeReturn ==
    \A p \in Procs :
        (last[p].exc = "" /\ Missed(p)) =>
            /\ Readable
            /\ last[p].key \in DOMAIN Store
            /\ Store[last[p].key] =
                   IF last[p].fn = SITE THEN AsDict(last[p].val)
                   ELSE IF last[p].fn = SITES THEN last[p].site_urls
                   ELSE last[p].val
            /\ last[p].fn = SITES =>
                   \A i \in DOMAIN last[p].val.v :
                       /\ last[p].site_urls.v[i] \in DOMAIN Store
                       /\ Store[last[p].site_urls.v[i]]
                              = AsDict(last[p].val.v[i])
            /\ \A k \in DOMAIN last[p].before :
                   k \in DOMAIN Store /\ Store[k] = last[p].before[k]

C9_Witness ==
    \E p \in Procs :
        /\ last[p].exc = "" /\ Missed(p)
        /\ last[p].fn = SITE
        /\ Cardinality(DOMAIN last[p].before) >= 2

\* C10, as claimed: whenever a process is killed, in save_cache or
\* elsewhere, open_cache still succeeds and the store still has every key
\* it had, with its value.
C10_KillKeepsStore ==
    [][(file' # file /\ Readable) => (Readable' /\ Kept(Store, Store'))]_vars

\* C14: open_cache called after save_cache(d) has written the file returns
\* a mapping equal to d, for every store d of string keys and nested
\* JSON-like values.
C14_RoundTrip ==
    [][\A p \in Procs :
          (/\ At(p, OPEN, "open")
           /\ last[p].fn = SAVE /\ last[p].exc = ""
           /\ ~Running(p)') =>
              (/\ last'[p].fn = OPEN
               /\ last'[p].exc = ""
               /\ last'[p].val = last[p].arg)]_vars

C14_Witness ==
    \E p \in Procs :
        /\ Returned(p, OPEN)
        /\ DOMAIN last[p].val = StoreKeys
        /\ LET places == last[p].val["49931"]
               states == last[p].val["https://www.nps.gov/index.htm"]
           IN  /\ type(places) = "list"
               /\ Len(places.v) = 2
               /\ type(places.v[1]) = "int" /\ places.v[1].v = 10
               /\ type(places.v[2]) = "None"
               /\ type(states) = "dict"
               /\ DOMAIN states.v = {"name", "zipcode"}
               /\ type(states.v.name) = "str" /\ states.v.name = ""
               /\ type(states.v.zipcode) = "bool"

\* C13: open_cache returns the empty store when the file does not exist;
\* when the file exists and its text is not a complete JSON value it
\* raises, returns no store and leaves the file as it is.
Truncated(text) == Len(text) = 0 \/ text[Len(text)] # RBrace

C13_OpenCache ==
    [][\A p \in Procs :
          open_cache_call(p) =>
              /\ ~file.exists =>
                     /\ last'[p].fn = OPEN /\ last'[p].exc = ""
                     /\ last'[p].val = EmptyDict
              /\ (file.exists /\ Truncated(file.text)) =>
                     /\ last'[p].fn = OPEN /\ last'[p].exc # ""
                     /\ last'[p].val = None
                     /\ ~Running(p)'
                     /\ file' = file]_vars

C13_Witness ==
    \E p \in Procs :
        /\ last[p].fn = OPEN /\ last[p].exc = "JSONDecodeError"
        /\ file.exists /\ Len(file.text) = 2 /\ file.text[2] # RBrace
        /\ <<OPEN, CACHE_FILENAME>> \in DOMAIN first

\* a frame of p is left in this step: a call of p ends, and last'[p] tells
\* how
CallEnds(p) == Len(stack'[p]) < Len(stack[p])

\* the request of the call failed: no response, or a response whose status
\* is no success
NotOk(call) == call.status \notin {0, 200}
Failed(call) == call.exc = "ConnectionError" \/ NotOk(call)

\* C11, as claimed: a resolver whose request fails or is answered with a
\* status that is no success sends no second request, raises instead of
\* returning a value, and leaves its key out of the store.
C11_FailedRequestRaises ==
    [][\A p \in Procs :
          /\ (CallEnds(p) /\ Failed(last'[p])) =>
                 /\ last'[p].exc # ""
                 /\ last'[p].val = None
                 /\ last'[p].sent = 1
                 /\ last'[p].key \notin DOMAIN Store'
          /\ \A i \in DOMAIN stack'[p] :
                 NotOk(stack'[p][i]) =>
                     /\ stack'[p][i].pc = "parse"
                     /\ CallKey(stack'[p][i]) \notin DOMAIN Store']_vars

\* the page the call fetched lacks the element that holds its list
NoContainer(call) ==
    /\ call.soup # None
    /\ \/ call.fn = BUILD /\ ~call.soup.nav
       \/ call.fn = SITES /\ ~call.soup.list_parks

\* C12: build_state_url_dict on an index page without the navigation list
\* and get_sites_for_state on a state page without the list of parks raise,
\* return nothing, and leave the file and the store as they were when the
\* call began.
C12_FailsAsAWhole ==
    [][\A p \in Procs :
          (/\ CallEnds(p)
           /\ last'[p].fn \in {BUILD, SITES}
           /\ NoContainer(last'[p])) =>
              /\ last'[p].exc = "AttributeError"
              /\ last'[p].val = None
              /\ last'[p].site_urls = None
              /\ ~Running(p)'
              /\ file' = file
              /\ Store' = last'[p].before]_vars

C12_Witness ==
    \E p \in Procs :
        /\ last[p].fn = SITES /\ NoContainer(last[p])
        /\ last[p].exc = "AttributeError"
        /\ ~Running(p)
        /\ Cardinality(DOMAIN last[p].before) >= 2
        /\ Store = last[p].before
        /\ \E q \in Procs : <<BUILD, index_url>> \in DOMAIN first

\* the calls that have used the cache: <<fn, key>> for every call that is
\* running, that ended last, or that has succeeded
Uses ==
    UNION {{<<stack[p][i].fn, CallKey(stack[p][i])>> : i \in DOMAIN stack[p]}
              : p \in Procs}
    \cup {<<last[p].fn, last[p].key>> : p \in {q \in Procs : last[q].fn # ""}}
    \cup DOMAIN first

\* C15, as claimed: no key is used by resolvers of two kinds; a detail URL
\* base + href + "index.htm" is never the index URL nor the URL of a state
\* page, a zipcode is never a URL.
C15_KeySpaceUnique ==
    \A u1 \in Uses, u2 \in Uses : u1[2] = u2[2] => u1[1] = u2[1]

\* C16: with two processes the last writer wins on the whole file.  When a
\* get_site_instance call saves, the store becomes the store the call had
\* loaded plus its own key, whatever the other process has written since;
\* so two calls for two missing keys can both return and leave one key.
C16_LastWriterWins ==
    [][\A p \in Procs :
          (/\ At(p, SITE, "parse")
           /\ CallEnds(p)
           /\ last'[p].exc = "") =>
              /\ DOMAIN Store' = DOMAIN Top(p).before \cup {Top(p).arg}
              /\ \A k \in DOMAIN Top(p).before :
                     Store'[k] = Top(p).before[k]
              /\ Store'[Top(p).arg] = AsDict(last'[p].val)]_vars

C16_Witness ==
    /\ ~Running(1) /\ ~Running(2)
    /\ Returned(1, SITE) /\ Missed(1)
    /\ Returned(2, SITE) /\ Missed(2)
    /\ last[1].key # last[2].key
    /\ last[1].before = EmptyDict /\ last[2].before = EmptyDict
    /\ DOMAIN Store = {last[2].key}

\* C17: a state name that is not in state_dict, and a number outside
\* 1..n for a list of n sites, reach no resolver: no call is made, the
\* error message is printed and the same prompt comes again.
C17_InvalidInputStaysOut ==
    [][/\ (/\ main_state
            /\ main'.state # "exit"
            /\ main'.state \notin DOMAIN main.state_dict.v) =>
               /\ stack' = stack /\ ~Running(1)'
               /\ main'.printed = "Enter proper state name."
               /\ main'.pc = "prompt"
       /\ (/\ main_detail
            /\ main'.detail \notin {"exit", "back"}
            /\ int(main'.detail).exc = ""
            /\ int(main'.detail).val \notin 1..Len(main.sites)) =>
               /\ stack' = stack /\ ~Running(1)'
               /\ main'.printed = "[Error] Invalid input."
               /\ main'.pc = "prompt2"]_vars

C17_Witness ==
    /\ main.pc = "prompt2"
    /\ main.printed = "[Error] Invalid input."
    /\ main.detail = "-1"
    /\ Len(main.sites) = 2
    /\ ~Running(1)

\* the store has a site record under url
HasSite(url) ==
    /\ url \in DOMAIN Store
    /\ type(Store[url]) = "dict"
    /\ DOMAIN Store[url].v = Fields

\* C18: once get_sites_for_state(u) has stored its list it writes no more:
\* while it runs its loop and when it returns, the store has u with the
\* list, and a site record for every URL of the list resolved so far (for
\* every URL of the list when it returns).
C18_NoStaleWrite ==
    /\ \A p \in Procs : \A i \in DOMAIN stack[p] :
          (stack[p][i].fn = SITES /\ stack[p][i].pc = "loop") =>
              /\ stack[p][i].arg \in DOMAIN Store
              /\ Store[stack[p][i].arg] = stack[p][i].site_urls
              /\ \A n \in 1..Len(stack[p][i].sites) :
                     /\ HasSite(stack[p][i].site_urls.v[n])
                     /\ Store[stack[p][i].site_urls.v[n]]
                            = AsDict(stack[p][i].sites[n])
    /\ \A p \in Procs :
          (Returned(p, SITES) /\ ~Running(p)) =>
              /\ last[p].key \in DOMAIN Store
              /\ type(Store[last[p].key]) = "list"
              /\ \A n \in DOMAIN Store[last[p].key].v :
                     HasSite(Store[last[p].key].v[n])

C18_Witness ==
    \E p \in Procs :
        /\ Returned(p, SITES) /\ ~Running(p)
        /\ Missed(p) /\ last[p].nreq = 3
        /\ Len(Store[last[p].key].v) = 2
        /\ Cardinality(DOMAIN Store) >= 3

\* C19: when get_sites_for_state(u) raises in its k-th get_site_instance,
\* the store keeps the list under u and the records of the k-1 sites
\* before; and a get_sites_for_state(u) that finds the list in the store
\* requests no state page, and no page of a site whose record the store
\* had when the call began: its requests are those of the other sites.
C19_ResumesAfterFailure ==
    [][\A p \in Procs :
          /\ (/\ Len(stack[p]) = 2
               /\ stack[p][1].fn = SITES
               /\ stack'[p] = <<>>
               /\ last'[p].exc # "") =>
                  /\ stack[p][1].arg \in DOMAIN Store'
                  /\ Store'[stack[p][1].arg] = stack[p][1].site_urls
                  /\ \A n \in 1..Len(stack[p][1].sites) :
                         /\ stack[p][1].site_urls.v[n] \in DOMAIN Store'
                         /\ Store'[stack[p][1].site_urls.v[n]]
                                = AsDict(stack[p][1].sites[n])
          /\ (/\ stack'[p] # <<>>
               /\ stack'[p][1].fn = SITES
               /\ stack'[p][1].pc = "loop"
               /\ stack'[p][1].arg \in DOMAIN stack'[p][1].before) =>
                  LET f == stack'[p][1]
                      fetched == {n \in 1..Len(f.sites) :
                                     f.site_urls.v[n]
                                         \notin DOMAIN f.before}
                  IN  /\ f.sent = 0 /\ f.soup = None
                      /\ f.nreq <= Cardinality(fetched)
                      /\ \A i \in 2..Len(stack'[p]) :
                             stack'[p][i].arg \in DOMAIN f.before =>
                                 /\ stack'[p][i].sent = 0
                                 /\ stack'[p][i].pc = "open"]_vars

C19_Witness ==
    \E p \in Procs :
        /\ Returned(p, SITES) /\ ~Running(p)
        /\ ~Missed(p) /\ ~last[p].again
        /\ Len(last[p].val.v) = 2
        /\ last[p].site_urls.v[1] # last[p].site_urls.v[2]
        /\ last[p].site_urls.v[1] \in DOMAIN last[p].before
        /\ last[p].site_urls.v[2] \notin DOMAIN last[p].before
        /\ last[p].nreq = 1

\* C20, as claimed: the program prints "Enter proper state name." only for
\* a state name that is not in state_dict; an exception raised in
\* get_sites_for_state or in a get_site_instance under it is not reported
\* with that message and is not caught by the loop: it ends the program.
C20_OnlyForUnknownState ==
    [][/\ (/\ main' # main
            /\ main.pc \in {"prompt", "sites", "nearby"}
            /\ main'.pc = "prompt"
            /\ main'.printed = "Enter proper state name.") =>
               /\ main.pc = "prompt"
               /\ main'.state \notin DOMAIN main.state_dict.v
       /\ (/\ main' # main
            /\ main.pc = "sites"
            /\ last[1].exc # "") =>
               /\ main'.pc = "dead"
               /\ main'.exc = last[1].exc]_vars

====
